---------------------------- MODULE Spec2Model ----------------------------
(***************************************************************************)
(* Model of snapbtrfs (src/snapbtrfs.py): the calendar arithmetic of       *)
(* DateTimeUtil, the snapshot record ExistingSnapshot, the collection      *)
(* ExistingSnapshotsCollection and the decision made by main().            *)
(*                                                                         *)
(* Instants are whole seconds counted from 2016-01-01 00:00:00 UTC.  The   *)
(* local zone of the machine is part of the state.  Two zones are          *)
(* modelled: the one the repository's tests are written for (UTC+1, UTC+2  *)
(* between the last Sundays of March and of October, switches at 01:00     *)
(* UTC, which is 02:00 or 03:00 local time), and one whose switches take   *)
(* place at local midnight (UTC-5, UTC-4 between the second Sunday of      *)
(* March and the first Sunday of November, switches at 05:00 UTC).  Every  *)
(* time stamp carries a whole-hour offset, so replace(minute=0, second=0,  *)
(* microsecond=0) clears the seconds past the UTC hour.                    *)
(***************************************************************************)
EXTENDS Integers, Sequences, FiniteSets, TLC

VARIABLES
    debug,       \* DEBUG (line 49): system_run prints the command and does
                 \* not run it
    zone,        \* the local zone of the machine, which astimezone() reads
    now,         \* main: now, the instant of this run (line 378)
    cfg,         \* main: volume_cfg, the count configured for each period
    pc,          \* where the run is: listing, then checking, marking, ...
    collection,  \* ExistingSnapshotsCollection.collection
    sorted,      \* ExistingSnapshotsCollection.sorted
    call,        \* the last call made, its arguments and what it returned
    planned,     \* paths that the mark_period calls made so far keep when each
                 \* runs alone on the unmarked collection
    events       \* main: the commands handed to system_run, in order

vars == <<debug, zone, now, cfg, pc, collection, sorted, call, planned, events>>

(***************************************************************************)
(* Bounds of the model                                                     *)
(***************************************************************************)
MaxSnaps == 2     \* snapshots in the collection

MaxCount == 2     \* the count configured for a period is in 0..MaxCount

MaxLoop == 20     \* iterations of the loop of mark_period that are followed

(***************************************************************************)
(* PERIOD_KEYS                                                             *)
(***************************************************************************)
\* debug mode, as the source has it
DEBUG == TRUE

PERIOD_KEYS == <<"hourly", "daily", "weekly", "monthly", "yearly">>

Periods == {PERIOD_KEYS[i] : i \in 1..Len(PERIOD_KEYS)}

(***************************************************************************)
(* datetime arithmetic                                                     *)
(***************************************************************************)
Minutes(n) == n * 60

Hours(n) == n * 3600

Days(n) == n * 86400

\* datetime: a year is leap when divisible by 4 and not by 100, or by 400
IsLeap(y) == y % 4 = 0 /\ (y % 100 # 0 \/ y % 400 = 0)

\* datetime: number of days before January 1st of year y
DaysBeforeYear(y) ==
    (y - 1) * 365 + (y - 1) \div 4 - (y - 1) \div 100 + (y - 1) \div 400

\* datetime: number of days in the year before the first day of month m
DaysBeforeMonth(y, m) ==
    <<0, 31, 59, 90, 120, 151, 181, 212, 243, 273, 304, 334>>[m]
        + (IF m > 2 /\ IsLeap(y) THEN 1 ELSE 0)

\* date.toordinal(): January 1st of year 1 is day 1
Ordinal(y, m, d) == DaysBeforeYear(y) + DaysBeforeMonth(y, m) + d

\* date.fromordinal(), last step: day n (from 0) of year y falls in month m
CivilInMonth(y, n, m) ==
    [year |-> y, month |-> m, day |-> n - DaysBeforeMonth(y, m) + 1]

\* date.fromordinal(): the month is estimated as m0 and corrected downwards
CivilInYear(y, n, m0) ==
    CivilInMonth(y, n, IF DaysBeforeMonth(y, m0) > n THEN m0 - 1 ELSE m0)

\* date.fromordinal(): n400, n100, n4, n1 complete cycles of 400, 100, 4 and
\* 1 years come before the year, and n days of the year before the day
CivilOfCycles(n400, n100, n4, n1, n) ==
    IF n1 = 4 \/ n100 = 4
    THEN [year |-> n400 * 400 + n100 * 100 + n4 * 4 + n1, month |-> 12, day |-> 31]
    ELSE CivilInYear(n400 * 400 + n100 * 100 + n4 * 4 + n1 + 1, n, (n + 50) \div 32)

\* date.fromordinal(): the civil date [year, month, day] of an ordinal
CivilDate(o) ==
    CivilOfCycles((o - 1) \div 146097,
                  ((o - 1) % 146097) \div 36524,
                  (((o - 1) % 146097) % 36524) \div 1461,
                  ((((o - 1) % 146097) % 36524) % 1461) \div 365,
                  ((((o - 1) % 146097) % 36524) % 1461) % 365)

\* the ordinal of the day on which instant 0 falls (2016-01-01)
EpochOrdinal == Ordinal(2016, 1, 1)

\* the instant of 00:00:00 UTC of a civil date
UtcMidnight(y, m, d) == Days(Ordinal(y, m, d) - EpochOrdinal)

\* date.weekday(): Monday is 0
WeekdayOfOrdinal(o) == (o + 6) % 7

\* the last Sunday at or before the day of ordinal o
SundayOnOrBefore(o) == o - ((WeekdayOfOrdinal(o) + 1) % 7)

\* the last Sunday of month m of year y (m has 31 days), as an ordinal
LastSunday(y, m) == SundayOnOrBefore(Ordinal(y, m, 31))

\* the n-th Sunday of month m of year y, as an ordinal
NthSunday(y, m, n) == SundayOnOrBefore(Ordinal(y, m, 7 * n))

\* the Sunday of year y named by a rule <<month, n>>, n = 0 for the last one
SwitchSunday(y, rule) ==
    IF rule[2] = 0 THEN LastSunday(y, rule[1]) ELSE NthSunday(y, rule[1], rule[2])

(***************************************************************************)
(* The local zone: ts.astimezone()                                         *)
(***************************************************************************)
StdOffsetHours == 1

DstShiftHours == 1

\* the zone of the tests: UTC+1, summer time from the last Sunday of March
\* to the last Sunday of October, both switches at 01:00 UTC
Paris ==
    [std |-> StdOffsetHours, shift |-> DstShiftHours,
     start |-> <<3, 0>>, end |-> <<10, 0>>, switch |-> 1]

\* a zone that switches at local midnight: UTC-5, summer time from the
\* second Sunday of March to the first Sunday of November, both switches at
\* 05:00 UTC (00:00 becomes 01:00, and 01:00 becomes 00:00)
Havana ==
    [std |-> 0 - 5, shift |-> DstShiftHours,
     start |-> <<3, 2>>, end |-> <<11, 1>>, switch |-> 5]

Zones == { Paris, Havana }

\* the instants at which summer time starts and ends in year y
DstStart(y) == Days(SwitchSunday(y, zone.start) - EpochOrdinal) + Hours(zone.switch)

DstEnd(y) == Days(SwitchSunday(y, zone.end) - EpochOrdinal) + Hours(zone.switch)

InDstOfYear(t, y) == DstStart(y) <= t /\ t < DstEnd(y)

InDst(t) == InDstOfYear(t, CivilDate(EpochOrdinal + t \div 86400).year)

\* utcoffset() of the local time of instant t, in seconds
UtcOffset(t) == Hours(zone.std + (IF InDst(t) THEN zone.shift ELSE 0))

\* the local civil fields, from the civil date cd of the day of ordinal o and
\* the seconds sod since its midnight
LocalFields(cd, o, sod) ==
    [year    |-> cd.year,
     month   |-> cd.month,
     day     |-> cd.day,
     hour    |-> sod \div 3600,
     minute  |-> (sod % 3600) \div 60,
     second  |-> sod % 60,
     weekday |-> WeekdayOfOrdinal(o),
     ordinal |-> o]

\* the local civil fields of the wall clock lt, in seconds since the epoch
LocalOfWallClock(lt) ==
    LocalFields(CivilDate(EpochOrdinal + lt \div 86400),
                EpochOrdinal + lt \div 86400, lt % 86400)

\* ts.astimezone(): the local civil fields of instant t
Local(t) == LocalOfWallClock(t + UtcOffset(t))

\* (local.hour, local.minute, local.second)
LocalClock(local) == <<local.hour, local.minute, local.second>>

(***************************************************************************)
(* DateTimeUtil                                                            *)
(***************************************************************************)
\* ts - datetime.timedelta(hours=n)
MinusHours(ts, n) == ts - Hours(n)

round_beginning_hour(ts) == ts - (ts % 3600)

\* a day rounding that leaves the DST adjustment out
day_not_adjusted(ts, hour) == ts

\* round_beginning_day, lines 92-98: the local hours were removed from ts,
\* and local time then shows hour
day_dst_adjustment(ts, hour) ==
    IF hour = 0 THEN ts
    ELSE IF hour = 1 THEN MinusHours(ts, 1)
    ELSE ts + Hours(1)

\* round_beginning_day, lines 87-91: ts is on the hour and local time shows hour
day_remove_local_hours(ts, hour) ==
    IF hour = 0 THEN ts
    ELSE day_dst_adjustment(MinusHours(ts, hour), Local(MinusHours(ts, hour)).hour)

round_beginning_day(ts) ==
    day_remove_local_hours(round_beginning_hour(ts), Local(round_beginning_hour(ts)).hour)

\* round_beginning_week, lines 108-113: ts starts a day, which is weekday
week_remove_days(ts, weekday) ==
    IF weekday = 0 THEN ts
    ELSE round_beginning_day(MinusHours(ts, 24 * (weekday - 1) + 12))

\* round_beginning_week, lines 106-107
week_of_day(ts) == week_remove_days(ts, Local(ts).weekday)

round_beginning_week(ts) == week_of_day(round_beginning_day(ts))

\* a month rounding that removes one day too many
month_remove_days_one_more(ts, day) ==
    IF day = 1 THEN ts
    ELSE round_beginning_day(MinusHours(ts, 24 * (day - 1) + 12))

\* round_beginning_month, lines 123-127: ts starts a day, the day-th of its month
month_remove_days(ts, day) ==
    IF day = 1 THEN ts
    ELSE round_beginning_day(MinusHours(ts, 24 * (day - 2) + 12))

\* round_beginning_month, lines 121-122
month_of_day(ts) == month_remove_days(ts, Local(ts).day)

round_beginning_month(ts) == month_of_day(round_beginning_day(ts))

\* round_beginning_year, lines 137-142: ts starts the day whose local fields
\* are local
year_remove_days(ts, local) ==
    IF local.month = 1 /\ local.day = 1 THEN ts
    ELSE round_beginning_day(
             MinusHours(ts, 24 * ((local.ordinal - Ordinal(local.year, 1, 1)) - 1) + 12))

\* round_beginning_year, lines 135-136
year_of_day(ts) == year_remove_days(ts, Local(ts))

round_beginning_year(ts) == year_of_day(round_beginning_day(ts))

\* a sliding hour: sixty minutes before ts
prev_hour_sliding(ts) == MinusHours(ts, 1)

prev_hour(ts) ==
    IF ts % 3600 # 0 THEN round_beginning_hour(ts) ELSE MinusHours(ts, 1)

prev_day(ts) ==
    IF LocalClock(Local(ts)) # <<0, 0, 0>>
    THEN round_beginning_day(ts)
    ELSE round_beginning_day(MinusHours(ts, 12))

\* prev_week, lines 170-178, local being ts.astimezone()
prev_week_from(ts, local) ==
    IF <<local.weekday>> \o LocalClock(local) # <<0, 0, 0, 0>>
    THEN round_beginning_week(ts)
    ELSE round_beginning_week(ts - Days(1))

prev_week(ts) == prev_week_from(ts, Local(ts))

\* prev_month, lines 185-194, local being ts.astimezone()
prev_month_from(ts, local) ==
    IF <<local.day>> \o LocalClock(local) # <<1, 0, 0, 0>>
    THEN round_beginning_month(ts)
    ELSE round_beginning_month(ts - Days(1))

prev_month(ts) == prev_month_from(ts, Local(ts))

\* prev_year, lines 201-211, local being ts.astimezone()
prev_year_from(ts, local) ==
    IF <<local.month, local.day>> \o LocalClock(local) # <<1, 1, 0, 0, 0>>
    THEN round_beginning_year(ts)
    ELSE round_beginning_year(ts - Days(1))

prev_year(ts) == prev_year_from(ts, Local(ts))

\* map_prev_period and prev_period
prev_period(period, ts) ==
    CASE period = "hourly"  -> prev_hour(ts)
      [] period = "daily"   -> prev_day(ts)
      [] period = "weekly"  -> prev_week(ts)
      [] period = "monthly" -> prev_month(ts)
      [] period = "yearly"  -> prev_year(ts)

\* the round_beginning_* function of a period
round_beginning(period, ts) ==
    CASE period = "hourly"  -> round_beginning_hour(ts)
      [] period = "daily"   -> round_beginning_day(ts)
      [] period = "weekly"  -> round_beginning_week(ts)
      [] period = "monthly" -> round_beginning_month(ts)
      [] period = "yearly"  -> round_beginning_year(ts)

(***************************************************************************)
(* ExistingSnapshot                                                        *)
(***************************************************************************)
\* __init__: path names the snapshot, key is ts rounded to the previous hour
ExistingSnapshot(path, ts) ==
    [path |-> path, ts |-> ts, key |-> round_beginning_hour(ts), is_kept |-> FALSE]

\* __lt__
SnapLess(self, other) == self.key < other.key

\* a keep() that flips the flag
keep_toggle(snap) == [snap EXCEPT !.is_kept = ~@]

\* keep()
keep(snap) == [snap EXCEPT !.is_kept = TRUE]

(***************************************************************************)
(* ExistingSnapshotsCollection                                             *)
(***************************************************************************)
\* list.sort(key=...): stable, a snapshot goes behind those whose key is not greater
RECURSIVE InsertByKey(_, _)

\* a sort that is not stable: a snapshot goes before those of the same key
InsertBeforeSameKey(list, snap) ==
    IF list = <<>> THEN <<snap>>
    ELSE IF list[Len(list)].key < snap.key THEN Append(list, snap)
    ELSE Append(InsertByKey(SubSeq(list, 1, Len(list) - 1), snap), list[Len(list)])

InsertByKey(list, snap) ==
    IF list = <<>> THEN <<snap>>
    ELSE IF list[Len(list)].key <= snap.key THEN Append(list, snap)
    ELSE Append(InsertByKey(SubSeq(list, 1, Len(list) - 1), snap), list[Len(list)])

RECURSIVE SortByKey(_)
SortByKey(list) ==
    IF list = <<>> THEN <<>>
    ELSE InsertByKey(SortByKey(SubSeq(list, 1, Len(list) - 1)), list[Len(list)])

\* a sort() that sets the flag and leaves the order
sort_skipped(list, is_sorted) == list

\* sort(): the collection after the call (the flag becomes TRUE)
sort(list, is_sorted) == IF ~is_sorted THEN SortByKey(list) ELSE list

\* bisect.bisect_left(a, x) on 0-based positions lo..hi
RECURSIVE bisect_left(_, _, _, _)
bisect_left(a, x, lo, hi) ==
    IF lo < hi
    THEN IF SnapLess(a[(lo + hi) \div 2 + 1], x)
         THEN bisect_left(a, x, (lo + hi) \div 2 + 1, hi)
         ELSE bisect_left(a, x, lo, (lo + hi) \div 2)
    ELSE lo

\* the newest snapshot of the window instead: the last position with key < end
find_newest_from(list, index, begin) ==
    IF index = 0 THEN 0
    ELSE IF list[index].key >= round_beginning_hour(begin) THEN index
    ELSE 0

find_newest_in_window(list, begin, end) ==
    find_newest_from(list, bisect_left(list, ExistingSnapshot(0, end), 0, Len(list)), begin)

\* a choice of the snapshot that takes the last one of the key found
find_last_of_key_from(list, index, end) ==
    IF index >= Len(list) THEN 0
    ELSE IF list[index + 1].key < end
         THEN CHOOSE i \in index + 1..Len(list) :
                  /\ list[i].key = list[index + 1].key
                  /\ \A j \in i + 1..Len(list) : list[j].key # list[i].key
    ELSE 0

\* find_oldest_in_window, lines 323-329: index is what bisect_left returned
find_oldest_from(list, index, end) ==
    IF index >= Len(list) THEN 0
    ELSE IF list[index + 1].key < end THEN index + 1
    ELSE 0

\* find_oldest_in_window on the sorted list: the 1-based position of the
\* snapshot returned, 0 for None
find_oldest_in_window(list, begin, end) ==
    find_oldest_from(list, bisect_left(list, ExistingSnapshot(0, begin), 0, Len(list)), end)

\* the condition of the while loop of mark_period
mark_guard(list, end, nb_kept) ==
    nb_kept > 0 /\ list # <<>> /\ end >= list[1].ts

RECURSIVE mark_loop(_, _, _, _, _)

\* a loop body in which a snapshot that is already kept does not count
mark_found_skip_kept(list, period, begin, nb_kept, n, snap) ==
    IF snap # 0 /\ ~list[snap].is_kept
    THEN mark_loop([list EXCEPT ![snap] = keep(@)], period, begin, nb_kept - 1, n + 1)
    ELSE mark_loop(list, period, begin, nb_kept, n + 1)

\* the loop body of mark_period, lines 340-343: snap is what
\* find_oldest_in_window returned for the window that starts at begin
mark_found(list, period, begin, nb_kept, n, snap) ==
    IF snap # 0
    THEN mark_loop([list EXCEPT ![snap] = keep(@)], period, begin, nb_kept - 1, n + 1)
    ELSE mark_loop(list, period, begin, nb_kept, n + 1)

\* the loop body of mark_period, lines 338-339
mark_window(list, period, begin, end, nb_kept, n) ==
    mark_found(list, period, begin, nb_kept, n, find_oldest_in_window(list, begin, end))

\* the while loop of mark_period, n iterations done
mark_loop(list, period, end, nb_kept, n) ==
    IF mark_guard(list, end, nb_kept) /\ n < MaxLoop
    THEN mark_window(list, period, prev_period(period, end), end, nb_kept, n)
    ELSE [collection |-> list, loops |-> n,
          finished |-> ~mark_guard(list, end, nb_kept)]

\* mark_period on the sorted list
mark_period(list, ts, period, nb_kept) == mark_loop(list, period, ts, nb_kept, 0)

\* has_snapshop_in_last_period on the sorted list
has_snapshop_in_last_period(list, ts, period) ==
    find_oldest_in_window(list, prev_period(period, ts), ts) # 0

(***************************************************************************)
(* Views of the collection                                                 *)
(***************************************************************************)
KeptPaths(list) == {list[i].path : i \in {j \in 1..Len(list) : list[j].is_kept}}

Keys(list) == {list[i].key : i \in 1..Len(list)}

Unmarked(list) == [i \in 1..Len(list) |-> [list[i] EXCEPT !.is_kept = FALSE]]

\* what mark_period keeps when it runs alone on the unmarked collection
KeptAlone(list, ts, period, nb_kept) ==
    KeptPaths(mark_period(Unmarked(list), ts, period, nb_kept).collection)

(***************************************************************************)
(* The calls                                                               *)
(***************************************************************************)
NoCall ==
    [op |-> "none", period |-> "", nb_kept |-> 0, begin |-> 0, end |-> 0,
     result |-> 0, fresh |-> FALSE, again |-> FALSE, loops |-> 0]

\* instants of a run: now and the creation times of the snapshots listed
\* 2018-01-01 is a Monday: the hour, day, week, month and year all change at
\* 00:00 local time, which is 2017-12-31 23:00 UTC
NewYear == UtcMidnight(2017, 12, 31) + Hours(23)

Nows == { NewYear, NewYear + Minutes(15) }

\* how long before now a listed snapshot was created (one is stamped after now)
SnapOffsets == { 0 - Minutes(15), Minutes(10), Minutes(59), Minutes(61), Hours(3) }

\* an add that leaves the flag as it is
sorted_after_add_kept(is_sorted) == is_sorted

\* add, line 305: self.sorted = False
sorted_after_add(is_sorted) == FALSE

\* add(snap), snap built from a creation time ts
Add(ts) ==
    /\ Len(collection) < MaxSnaps
    /\ collection' = Append(collection, ExistingSnapshot(Len(collection) + 1, ts))
    /\ sorted' = sorted_after_add(sorted)
    /\ call' = [NoCall EXCEPT !.op = "add"]
    /\ UNCHANGED <<debug, zone, now, cfg, pc, planned, events>>

\* find_oldest_in_window(begin, end)
FindOldestInWindow(begin, end) ==
    LET list == sort(collection, sorted)
    IN  /\ collection' = list
        /\ sorted' = TRUE
        /\ call' = [NoCall EXCEPT !.op = "find_oldest_in_window",
                                  !.begin = begin, !.end = end,
                                  !.result = find_oldest_in_window(list, begin, end)]
        /\ UNCHANGED <<debug, zone, now, cfg, pc, planned, events>>

\* mark_period(now, period, nb_kept)
MarkPeriod(period, nb_kept) ==
    /\ \E list \in {sort(collection, sorted)} :
       \E done \in {mark_period(list, now, period, nb_kept)} :
          /\ collection' = done.collection
          /\ sorted' = TRUE
          /\ call' = [NoCall EXCEPT !.op = "mark_period",
                                    !.period = period, !.nb_kept = nb_kept,
                                    !.end = now,
                                    !.fresh = (KeptPaths(collection) = {}),
                                    !.again = (/\ call.op = "mark_period"
                                               /\ call.period = period
                                               /\ call.nb_kept = nb_kept),
                                    !.loops = done.loops,
                                    !.result = IF done.finished THEN 1 ELSE 0]
          /\ planned' = planned \cup KeptAlone(list, now, period, nb_kept)
          /\ pc' = "mark"
          /\ UNCHANGED <<debug, zone, now, cfg, events>>

\* has_snapshop_in_last_period(now, period)
HasSnapshotInLastPeriod(period) ==
    LET list == sort(collection, sorted)
    IN  /\ collection' = list
        /\ sorted' = TRUE
        /\ call' = [NoCall EXCEPT !.op = "has_snapshop_in_last_period",
                                  !.period = period,
                                  !.begin = prev_period(period, now), !.end = now,
                                  !.result = IF has_snapshop_in_last_period(list, now, period)
                                             THEN 1 ELSE 0]
        /\ UNCHANGED <<debug, zone, now, cfg, pc, planned, events>>

\* the configurations of a run: every period with the same count, and one
\* with a different count for each period
Staggered == [p \in Periods |-> (CHOOSE i \in 1..Len(PERIOD_KEYS) : PERIOD_KEYS[i] = p)
                                   % (MaxCount + 1)]

MarkConfigs == {[p \in Periods |-> c] : c \in 0..MaxCount} \cup {Staggered}

InitMark ==
    /\ debug = DEBUG
    /\ zone = Paris
    /\ now \in Nows
    /\ cfg \in MarkConfigs
    /\ pc = "list"
    /\ collection = <<>>
    /\ sorted = TRUE
    /\ call = NoCall
    /\ planned = {}
    /\ events = <<>>

\* the snapshots are listed, then marked, the periods in any order and any
\* number of times: lines 396-398, then 407-409
NextMark ==
    \/ /\ pc = "list"
       /\ \E d \in SnapOffsets : Add(now - d)
    \/ \E period \in DOMAIN cfg : MarkPeriod(period, cfg[period])

SpecMark == InitMark /\ [][NextMark]_vars

(***************************************************************************)
(* The windows of a period behind an instant, for the properties           *)
(***************************************************************************)
Min(a, b) == IF a < b THEN a ELSE b

Positions(list) == 1..Len(list)

LowestKey(list) == CHOOSE k \in Keys(list) : \A other \in Keys(list) : k <= other

\* the windows <<b(i+1), b(i)>> with b(0) = end and b(i+1) = prev_period(period,
\* b(i)), down to the first one that starts at or below the instant lowest
RECURSIVE WindowChain(_, _, _, _)

WindowChainFrom(period, begin, end, lowest, n) ==
    {<<begin, end>>} \cup WindowChain(period, begin, lowest, n - 1)

WindowChain(period, end, lowest, n) ==
    IF n = 0 \/ end <= lowest THEN {}
    ELSE WindowChainFrom(period, prev_period(period, end), end, lowest, n)

Windows(list, period, end) ==
    IF list = <<>> THEN {} ELSE WindowChain(period, end, LowestKey(list), MaxLoop)

InWindow(snap, w) == w[1] <= snap.key /\ snap.key < w[2]

PopulatedWindows(list, period, end) ==
    {w \in Windows(list, period, end) : \E i \in Positions(list) : InWindow(list[i], w)}

KeptIn(list, w) == {i \in Positions(list) : list[i].is_kept /\ InWindow(list[i], w)}

\* the last call was mark_period on a collection with no snapshot kept
FreshMark == call.op = "mark_period" /\ call.fresh

(***************************************************************************)
(* C1: after mark_period(now, period, nb_kept) on a collection with no     *)
(* snapshot kept, the number of snapshots kept is the smaller of nb_kept   *)
(* and the number of windows behind now that hold a snapshot key, and no   *)
(* window holds two kept snapshots.                                        *)
(***************************************************************************)
C1_KeptCountIsMinOfCountAndWindows ==
    FreshMark =>
        /\ Cardinality(KeptPaths(collection))
             = Min(call.nb_kept,
                   Cardinality(PopulatedWindows(collection, call.period, now)))
        /\ \A w \in Windows(collection, call.period, now) :
              Cardinality(KeptIn(collection, w)) <= 1

\* the first snapshot of the collection is stamped after now, in now's hour
FirstSnapshotAhead ==
    /\ collection # <<>>
    /\ collection[1].key < now
    /\ now < collection[1].ts

\* C1 holds away from that case
C1_HoldsUnlessFirstSnapshotAhead ==
    (FreshMark /\ ~FirstSnapshotAhead) =>
        /\ Cardinality(KeptPaths(collection))
             = Min(call.nb_kept,
                   Cardinality(PopulatedWindows(collection, call.period, now)))
        /\ \A w \in Windows(collection, call.period, now) :
              Cardinality(KeptIn(collection, w)) <= 1

\* two snapshots of the collection whose keys lie in the same window behind now
SameWindow(list, period, i, j) ==
    \E w \in Windows(list, period, now) : InWindow(list[i], w) /\ InWindow(list[j], w)

\* two snapshots created on the same local day
SameLocalDay(list, i, j) == Local(list[i].ts).ordinal = Local(list[j].ts).ordinal

(***************************************************************************)
(* C2, as claimed: the snapshot that mark_period keeps for a window is the *)
(* most recent one of the window, no snapshot of the window has a later    *)
(* creation time.                                                          *)
(***************************************************************************)
C2_KeptIsMostRecentOfWindow ==
    FreshMark =>
        \A i, j \in Positions(collection) :
            (collection[i].is_kept /\ SameWindow(collection, call.period, i, j))
                => collection[j].ts <= collection[i].ts

(***************************************************************************)
(* C2, amended: the snapshot that mark_period keeps for a window is the    *)
(* first one of the window in the sorted collection: none of the window    *)
(* stands before it and none has a smaller key.                            *)
(***************************************************************************)
C2_KeptIsFirstOfWindow ==
    FreshMark =>
        \A i, j \in Positions(collection) :
            (collection[i].is_kept /\ SameWindow(collection, call.period, i, j))
                => (i <= j /\ collection[i].key <= collection[j].key)

\* a window holds the kept snapshot and a more recent one that is not kept
C2_Witness ==
    /\ FreshMark
    /\ \E i, j \in Positions(collection) :
          /\ collection[i].is_kept
          /\ ~collection[j].is_kept
          /\ SameWindow(collection, call.period, i, j)
          /\ collection[j].key > collection[i].key

(***************************************************************************)
(* C3, as claimed: a snapshot that mark_period marks has the smallest key  *)
(* of its window and is the oldest of the window; of several snapshots of  *)
(* one local day, daily marking keeps the earliest and no other.           *)
(***************************************************************************)
C3_MarkedIsOldestOfWindow ==
    FreshMark =>
        \A i, j \in Positions(collection) :
            /\ (collection[i].is_kept /\ SameWindow(collection, call.period, i, j))
                  => /\ collection[i].key <= collection[j].key
                     /\ collection[i].ts <= collection[j].ts
            /\ (/\ call.period = "daily"
                /\ collection[i].is_kept
                /\ i # j
                /\ SameLocalDay(collection, i, j))
                  => /\ collection[i].ts <= collection[j].ts
                     /\ ~collection[j].is_kept

(***************************************************************************)
(* C3, amended: a snapshot that mark_period marks has the smallest key of  *)
(* its window, so none of the window was taken in an earlier hour, and the *)
(* other snapshots of the window are left unkept; for "daily" the window   *)
(* is the local day, of whose snapshots one of the earliest hour is kept.  *)
(***************************************************************************)
C3_MarkedHasSmallestKeyOfWindow ==
    FreshMark =>
        \A i, j \in Positions(collection) :
            (collection[i].is_kept /\ SameWindow(collection, call.period, i, j))
                => /\ collection[i].key <= collection[j].key
                   /\ i # j => ~collection[j].is_kept

\* daily marking kept one of two snapshots of the same local day, taken in
\* different hours
C3_Witness ==
    /\ FreshMark
    /\ call.period = "daily"
    /\ \E i, j \in Positions(collection) :
          /\ collection[i].is_kept
          /\ ~collection[j].is_kept
          /\ SameLocalDay(collection, i, j)
          /\ collection[i].key < collection[j].key

(***************************************************************************)
(* C7: a mark_period call never unmarks a snapshot, and a call with the    *)
(* arguments of the call just before it leaves the kept set as that call   *)
(* left it.                                                                *)
(***************************************************************************)
C7_MarkPeriodIdempotent ==
    [][call'.op = "mark_period" =>
          /\ KeptPaths(collection) \subseteq KeptPaths(collection')
          /\ call'.again => KeptPaths(collection') = KeptPaths(collection)]_vars

\* mark_period was called twice in a row with the same arguments on a
\* collection that holds a kept and an unkept snapshot
C7_Witness ==
    /\ call.op = "mark_period"
    /\ call.again
    /\ ~call.fresh
    /\ \E i, j \in Positions(collection) : collection[i].is_kept /\ ~collection[j].is_kept

(***************************************************************************)
(* C8: whatever the order in which the periods are marked, the kept set is *)
(* the union of the sets that each mark_period call keeps when it runs     *)
(* alone on the unmarked collection.                                       *)
(***************************************************************************)
C8_KeptIsUnionOfPeriods == KeptPaths(collection) = planned

\* a second period was marked after another one, and two snapshots are kept
C8_Witness ==
    /\ call.op = "mark_period"
    /\ ~call.fresh
    /\ ~call.again
    /\ Cardinality(KeptPaths(collection)) >= 2

(***************************************************************************)
(* The collection called on its own: snapshots are added, and              *)
(* find_oldest_in_window and has_snapshop_in_last_period are called with   *)
(* windows that end at or before now and start on the hour or off it.      *)
(***************************************************************************)
\* on the hour, a quarter past, and in the last minute of the hour
IndexNows == Nows \cup { NewYear + Minutes(59) + 30 }

\* how long before now a window of find_oldest_in_window starts or ends
ProbeOffsets == { 0, Minutes(15), Minutes(45), Hours(1), Minutes(90), Hours(2) }

NoConfig == [p \in {} |-> 0]

InitIndex ==
    /\ debug = DEBUG
    /\ zone = Paris
    /\ now \in IndexNows
    /\ cfg = NoConfig
    /\ pc = "list"
    /\ collection = <<>>
    /\ sorted = TRUE
    /\ call = NoCall
    /\ planned = {}
    /\ events = <<>>

NextIndex ==
    \/ \E d \in SnapOffsets : Add(now - d)
    \/ \E b, e \in ProbeOffsets : FindOldestInWindow(now - b, now - e)
    \/ \E period \in Periods : HasSnapshotInLastPeriod(period)

SpecIndex == InitIndex /\ [][NextIndex]_vars

\* positions of the snapshots whose key lies in the window of the last call
InCallWindow ==
    {i \in Positions(collection) :
        call.begin <= collection[i].key /\ collection[i].key < call.end}

(***************************************************************************)
(* C4: for every window, on the hour or off it, find_oldest_in_window      *)
(* returns a snapshot whose key lies in the window and is the smallest     *)
(* such key, and returns None exactly when no key lies in the window.      *)
(***************************************************************************)
C4_FindOldestReturnsSmallestKeyInWindow ==
    call.op = "find_oldest_in_window" =>
        IF InCallWindow = {}
        THEN call.result = 0
        ELSE /\ call.result \in InCallWindow
             /\ \A i \in InCallWindow : collection[call.result].key <= collection[i].key

\* C4 holds for the windows that start on the hour
C4_HoldsWhenBeginOnTheHour ==
    (call.op = "find_oldest_in_window" /\ call.begin % 3600 = 0) =>
        IF InCallWindow = {}
        THEN call.result = 0
        ELSE /\ call.result \in InCallWindow
             /\ \A i \in InCallWindow : collection[call.result].key <= collection[i].key

\* every snapshot of the collection was created at or before now
AllPrior == \A i \in Positions(collection) : collection[i].ts <= now

\* the most recent snapshot was created d seconds before now
LatestIs(d) ==
    /\ collection # <<>>
    /\ AllPrior
    /\ \E i \in Positions(collection) : collection[i].ts = now - d
    /\ \A i \in Positions(collection) : collection[i].ts <= now - d

HourlyCheck == call.op = "has_snapshop_in_last_period" /\ call.period = "hourly"

(***************************************************************************)
(* C6, as claimed: whatever now is, has_snapshop_in_last_period(now,       *)
(* "hourly") is false when the most recent snapshot was created 61 minutes *)
(* before now and true when it was created 59 minutes before now.          *)
(***************************************************************************)
C6_HourlyFalseAt61TrueAt59 ==
    HourlyCheck =>
        /\ LatestIs(Minutes(61)) => call.result = 0
        /\ LatestIs(Minutes(59)) => call.result = 1

(***************************************************************************)
(* C6, amended: has_snapshop_in_last_period(now, "hourly") is false when   *)
(* the most recent snapshot was created 61 minutes before now; when it was *)
(* created 59 minutes before now the answer is true exactly when now is on *)
(* the hour or in the last minute of an hour, and false otherwise.         *)
(***************************************************************************)
C6_HourlyFalseAt61AndAt59InsideTheHour ==
    HourlyCheck =>
        /\ LatestIs(Minutes(61)) => call.result = 0
        /\ LatestIs(Minutes(59)) =>
              (call.result = 1 <=> (now % 3600 = 0 \/ now % 3600 >= Minutes(59)))

\* the most recent snapshot is 59 minutes old and the answer is false
C6_Witness ==
    /\ HourlyCheck
    /\ LatestIs(Minutes(59))
    /\ call.result = 0

(***************************************************************************)
(* main(), for one volume: the snapshots are listed, the need of a new     *)
(* snapshot is checked, and if one is due the periods are marked, the      *)
(* snapshot is taken and the snapshots not kept are deleted.               *)
(***************************************************************************)
\* a due check that looks at every period of the configuration
period_present(config, period) == period \in DOMAIN config

\* volume_cfg.get(period, 0) > 0
period_enabled(config, period) == period \in DOMAIN config /\ config[period] > 0

\* not all(has_snapshop_in_last_period(now, period) for the enabled periods),
\* on the sorted list
snapshot_due(list, ts, config) ==
    ~ \A i \in 1..Len(PERIOD_KEYS) :
          period_enabled(config, PERIOD_KEYS[i])
              => has_snapshop_in_last_period(list, ts, PERIOD_KEYS[i])

\* the for loop over PERIOD_KEYS that marks, from the i-th period on
RECURSIVE mark_periods(_, _, _, _)
mark_periods(list, ts, config, i) ==
    IF i > Len(PERIOD_KEYS) THEN list
    ELSE IF PERIOD_KEYS[i] \in DOMAIN config
         THEN mark_periods(mark_period(list, ts, PERIOD_KEYS[i],
                                       config[PERIOD_KEYS[i]]).collection,
                           ts, config, i + 1)
         ELSE mark_periods(list, ts, config, i + 1)

\* new_snap_path: the name of the snapshot that is taken, which no snapshot
\* of the listing bears
new_snap_path == 0

\* system_run: with DEBUG the command is printed, and otherwise it is run by
\* subprocess.run(check=True), which returns (TRUE) or raises (FALSE)
system_run(dbg) == IF dbg THEN {TRUE} ELSE BOOLEAN

\* a main that goes on to the deletion whatever system_run did
after_snapshot_unchecked(ok) == "delete"

\* where main goes after the snapshot command: an exception of system_run
\* is not caught, and ends the run
after_snapshot(ok) == IF ok THEN "delete" ELSE "failed"

RECURSIVE delete_commands(_, _)

\* a deletion loop that does not look at is_kept
delete_commands_all(list, i) ==
    IF i > Len(list) THEN <<>>
    ELSE <<[cmd |-> "delete", path |-> list[i].path, ok |-> TRUE]>>
             \o delete_commands(list, i + 1)

\* the commands of the deletion loop, for the snapshots from position i on
delete_commands(list, i) ==
    IF i > Len(list) THEN <<>>
    ELSE IF ~list[i].is_kept
         THEN <<[cmd |-> "delete", path |-> list[i].path, ok |-> TRUE]>>
                  \o delete_commands(list, i + 1)
         ELSE delete_commands(list, i + 1)

\* the deletion loop when system_run raises for the n-th command, which
\* ends the run: the commands up to the n-th were handed to system_run
delete_until(cmds, n) ==
    IF n = 0 THEN cmds
    ELSE Append(SubSeq(cmds, 1, n - 1), [cmds[n] EXCEPT !.ok = FALSE])

\* the commands that may raise: none with DEBUG (0), any of them otherwise
delete_failures(cmds, dbg) == IF dbg THEN {0} ELSE 0..Len(cmds)

\* lines 396-398: one snapshot of the directory is added
ListSnapshot(ts) ==
    /\ pc = "list"
    /\ Add(ts)

\* lines 400-405: the check, which sorts as soon as one period is enabled
CheckDue ==
    /\ pc = "list"
    /\ \E asked \in {\E p \in Periods : period_enabled(cfg, p)} :
       \E list \in {IF asked THEN sort(collection, sorted) ELSE collection} :
       \E due \in {snapshot_due(list, now, cfg)} :
          /\ collection' = list
          /\ sorted' = (asked \/ sorted)
          /\ call' = [NoCall EXCEPT !.op = "check", !.end = now,
                                    !.result = IF due THEN 1 ELSE 0]
          /\ pc' = IF due THEN "mark" ELSE "done"
          /\ UNCHANGED <<debug, zone, now, cfg, planned, events>>

\* lines 406-409: every period of the configuration is marked, in the order
\* of PERIOD_KEYS
MarkPeriods ==
    /\ pc = "mark"
    /\ \E list \in {sort(collection, sorted)} :
          /\ collection' = mark_periods(list, now, cfg, 1)
          /\ sorted' = TRUE
          /\ planned' = planned \cup UNION {KeptAlone(list, now, p, cfg[p]) : p \in DOMAIN cfg}
    /\ call' = [NoCall EXCEPT !.op = "mark_periods", !.end = now]
    /\ pc' = "create"
    /\ UNCHANGED <<debug, zone, now, cfg, events>>

\* lines 411-423: btrfs subvolume snapshot
TakeSnapshot ==
    /\ pc = "create"
    /\ \E ok \in system_run(debug) :
          /\ events' = Append(events, [cmd |-> "snapshot", path |-> new_snap_path,
                                       ok |-> ok])
          /\ pc' = after_snapshot(ok)
    /\ call' = [NoCall EXCEPT !.op = "snapshot"]
    /\ UNCHANGED <<debug, zone, now, cfg, collection, sorted, planned>>

\* lines 425-431: btrfs subvolume delete for every snapshot that is not kept
DeleteSnapshots ==
    /\ pc = "delete"
    /\ \E cmds \in {delete_commands(collection, 1)} :
       \E n \in delete_failures(cmds, debug) :
          /\ events' = events \o delete_until(cmds, n)
          /\ pc' = IF n = 0 THEN "done" ELSE "failed"
    /\ call' = [NoCall EXCEPT !.op = "delete"]
    /\ UNCHANGED <<debug, zone, now, cfg, collection, sorted, planned>>

\* volume_cfg: periods may be absent, set to 0, or set to a count
MainConfigs ==
    MarkConfigs \cup
    { NoConfig,
      [p \in {"hourly"} |-> 1],
      [p \in {"hourly", "daily"} |-> IF p = "hourly" THEN 0 ELSE 1],
      [p \in {"weekly", "monthly"} |-> IF p = "weekly" THEN 0 ELSE MaxCount] }

InitMain ==
    /\ debug \in {DEBUG, FALSE}
    /\ zone = Paris
    /\ now \in Nows
    /\ cfg \in MainConfigs
    /\ pc = "list"
    /\ collection = <<>>
    /\ sorted = TRUE
    /\ call = NoCall
    /\ planned = {}
    /\ events = <<>>

NextMain ==
    \/ \E d \in SnapOffsets : ListSnapshot(now - d)
    \/ CheckDue
    \/ MarkPeriods
    \/ TakeSnapshot
    \/ DeleteSnapshots

SpecMain == InitMain /\ [][NextMain]_vars

\* a period with a positive count has no snapshot key in its last window
SomeEnabledPeriodUncovered ==
    \E g \in DOMAIN cfg :
        /\ cfg[g] > 0
        /\ ~ \E i \in Positions(collection) :
                 /\ prev_period(g, now) <= collection[i].key
                 /\ collection[i].key < now

NoPeriodEnabled == \A g \in DOMAIN cfg : cfg[g] <= 0

(***************************************************************************)
(* C5: a snapshot is due if and only if some period with a positive count  *)
(* has no snapshot key in [prev_period(period, now), now); so one is due   *)
(* on an empty collection as soon as a period is enabled, and when no      *)
(* period is enabled none is due, nothing is marked, taken or deleted.     *)
(***************************************************************************)
C5_DueIffEnabledPeriodUncovered ==
    /\ call.op = "check" =>
          /\ call.result = 1 <=> SomeEnabledPeriodUncovered
          /\ pc = (IF call.result = 1 THEN "mark" ELSE "done")
          /\ (collection = <<>> /\ ~NoPeriodEnabled) => call.result = 1
    /\ pc \in {"mark", "create", "delete"} => SomeEnabledPeriodUncovered
    /\ NoPeriodEnabled =>
          /\ pc \in {"list", "done"}
          /\ events = <<>>
          /\ KeptPaths(collection) = {}

\* the check found a snapshot due although the collection is not empty, a
\* period being enabled and another one disabled
C5_Witness ==
    /\ call.op = "check"
    /\ call.result = 1
    /\ collection # <<>>
    /\ \E g, h \in DOMAIN cfg : cfg[g] > 0 /\ cfg[h] = 0

(***************************************************************************)
(* DateTimeUtil called on its own, in either zone: round_beginning_* and   *)
(* prev_* are applied to instants around the two DST switches of 2018, the *)
(* new year, a leap day and the end of a month, and to what they returned. *)
(***************************************************************************)
CalBases ==
    { DstStart(2018), DstEnd(2018), UtcMidnight(2018, 1, 1) - Hours(zone.std),
      UtcMidnight(2020, 2, 29), UtcMidnight(2018, 7, 31) + Hours(22) }

CalHours == { 0 - 26, 0 - 3, 0 - 2, 0 - 1, 0, 1, 22, 50 }

CalSeconds == { 0, 1, 3599 }

CalInstants == { b + Hours(h) + sec : b \in CalBases, h \in CalHours, sec \in CalSeconds }

InitCal ==
    /\ debug = DEBUG
    /\ zone \in Zones
    /\ now \in CalInstants
    /\ cfg = NoConfig
    /\ pc = "list"
    /\ collection = <<>>
    /\ sorted = TRUE
    /\ call = NoCall
    /\ planned = {}
    /\ events = <<>>

\* the instant round_beginning is applied to: now, or what round_beginning
\* has just returned for now
CalInputs ==
    {now} \cup (IF call.op = "round_beginning" /\ call.begin = now
                THEN {call.result} ELSE {})

\* round_beginning_hour .. round_beginning_year
RoundBeginning(period, ts) ==
    /\ call' = [NoCall EXCEPT !.op = "round_beginning", !.period = period,
                              !.begin = ts,
                              !.result = round_beginning(period, ts),
                              !.again = (/\ call.op = "round_beginning"
                                         /\ call.period = period
                                         /\ ts = call.result)]
    /\ UNCHANGED <<debug, zone, now, cfg, pc, collection, sorted, planned, events>>

\* prev_period, applied to now
PrevPeriod(period, ts) ==
    /\ call' = [NoCall EXCEPT !.op = "prev_period", !.period = period,
                              !.begin = ts,
                              !.result = prev_period(period, ts)]
    /\ UNCHANGED <<debug, zone, now, cfg, pc, collection, sorted, planned, events>>

\* how far after now a second instant is taken
CalSteps == { 1, Hours(1), Hours(2), Hours(25) }

\* instants that follow now
CalLater == { now + step : step \in CalSteps }

NextCal ==
    \/ \E period \in Periods : \E ts \in CalInputs \cup CalLater :
          RoundBeginning(period, ts)
    \/ \E period \in Periods : PrevPeriod(period, now)

SpecCal == InitCal /\ [][NextCal]_vars

\* local civil time shows 00:00:00
LocalMidnight(local) == LocalClock(local) = <<0, 0, 0>>

\* r, whose local fields are lr, is the first instant of its local day: the
\* second before it, whose local fields are lp, belongs to another day
DayStarts(lr, lp) == lp.ordinal # lr.ordinal

\* r, whose local fields are lr, is the start in local civil time of the
\* period that contains t, whose local fields are lt
StartOfLocalPeriod(period, t, r, lt, lr, lp) ==
    CASE period = "hourly"  -> /\ lr.minute = 0 /\ lr.second = 0
                               /\ t - r < Hours(1)
      [] period = "daily"   -> /\ LocalMidnight(lr) /\ DayStarts(lr, lp)
                               /\ lr.ordinal = lt.ordinal
      [] period = "weekly"  -> /\ LocalMidnight(lr) /\ DayStarts(lr, lp)
                               /\ lr.weekday = 0
                               /\ lt.ordinal - lr.ordinal \in 0..6
      [] period = "monthly" -> /\ LocalMidnight(lr) /\ DayStarts(lr, lp)
                               /\ lr.day = 1
                               /\ lr.month = lt.month
                               /\ lr.year = lt.year
      [] period = "yearly"  -> /\ LocalMidnight(lr) /\ DayStarts(lr, lp)
                               /\ lr.day = 1
                               /\ lr.month = 1
                               /\ lr.year = lt.year

StartOfPeriod(period, t, r) ==
    StartOfLocalPeriod(period, t, r, Local(t), Local(r), Local(r - 1))

\* the zone switches to and from summer time at local midnight
SwitchAtLocalMidnight == (zone.switch + zone.std) % 24 = 0

\* a DST switch lies between the instants r and t
SwitchBetween(r, t) == UtcOffset(r) # UtcOffset(t)

(***************************************************************************)
(* C9: for each of the five periods and every instant t, round_beginning   *)
(* returns the start in local civil time of the period that contains t     *)
(* (the hour; 00:00 of the local day; Monday 00:00; day 1 00:00; 1 January *)
(* 00:00), which is not after t, also when a DST switch lies in between.   *)
(***************************************************************************)
C9_RoundBeginningIsLocalStartOfPeriod ==
    call.op = "round_beginning" =>
        /\ call.result <= call.begin
        /\ StartOfPeriod(call.period, call.begin, call.result)

\* C9 holds in a zone whose switches do not take place at local midnight
C9_HoldsWhenNoSwitchAtMidnight ==
    (call.op = "round_beginning" /\ ~SwitchAtLocalMidnight) =>
        /\ call.result <= call.begin
        /\ StartOfPeriod(call.period, call.begin, call.result)

\* in such a zone, a day was rounded across the switch of its own morning
C9_RoundedAcrossSwitch ==
    /\ call.op = "round_beginning"
    /\ ~SwitchAtLocalMidnight
    /\ call.period = "daily"
    /\ SwitchBetween(call.result, call.begin)
    /\ call.result < call.begin

OnBoundary(period, t) == round_beginning(period, t) = t

\* q is what the claim expects of prev_period for the instant t, r being
\* round_beginning of t: r when t is inside a period, and otherwise the
\* boundary that precedes t, which is the one the second before t rounds to
PrevBoundary(period, t, q, r) ==
    IF r # t
    THEN q = r
    ELSE /\ q < r
         /\ OnBoundary(period, q)
         /\ q = round_beginning(period, t - 1)

(***************************************************************************)
(* C12: for each period and every instant t, prev_period returns           *)
(* round_beginning of t when t is not on a boundary of the period, and     *)
(* when t is on a boundary it returns the boundary immediately before t,   *)
(* strictly less than t, also across DST switches.                         *)
(***************************************************************************)
C12_PrevPeriodIsPrecedingBoundary ==
    call.op = "prev_period" =>
        PrevBoundary(call.period, call.begin, call.result,
                     round_beginning(call.period, call.begin))

\* C12 holds in a zone whose switches do not take place at local midnight
C12_HoldsWhenNoSwitchAtMidnight ==
    (call.op = "prev_period" /\ ~SwitchAtLocalMidnight) =>
        PrevBoundary(call.period, call.begin, call.result,
                     round_beginning(call.period, call.begin))

\* in such a zone, prev_period was applied to a boundary and crossed a switch
C12_SteppedBackAcrossSwitch ==
    /\ call.op = "prev_period"
    /\ ~SwitchAtLocalMidnight
    /\ OnBoundary(call.period, call.begin)
    /\ SwitchBetween(call.result, call.begin)

\* prev_period returned the instant it was given
C12_PrevPeriodStuck ==
    /\ call.op = "prev_period"
    /\ call.result = call.begin


(***************************************************************************)
(* main(), the order of a run that finds a snapshot due                    *)
(***************************************************************************)
\* the paths of the snapshots listed
ListedPaths == {collection[i].path : i \in Positions(collection)}

\* every period of the configuration has been marked: what is kept is what
\* the mark_period calls of lines 406-409 keep
MarkedForAllPeriods ==
    KeptPaths(collection) =
        UNION {KeptAlone(collection, now, p, cfg[p]) : p \in DOMAIN cfg}

\* the paths handed to btrfs subvolume delete
DeletedPaths == {events[k].path : k \in {j \in 1..Len(events) : events[j].cmd = "delete"}}

(***************************************************************************)
(* C13: in a run that finds a snapshot due, every mark_period call is done *)
(* before the snapshot command, which comes before the delete commands of  *)
(* the snapshots that are not kept; the new snapshot is not in the         *)
(* collection that is marked and is not among the snapshots deleted.       *)
(***************************************************************************)
C13_MarkThenSnapshotThenDelete ==
    /\ pc \in {"list", "mark"} => (events = <<>> /\ KeptPaths(collection) = {})
    /\ pc = "create" => (events = <<>> /\ MarkedForAllPeriods)
    /\ events # <<>> =>
          /\ MarkedForAllPeriods
          /\ events[1].cmd = "snapshot"
          /\ events[1].path = new_snap_path
          /\ \A k \in 2..Len(events) :
                /\ events[k].cmd = "delete"
                /\ events[k].path # new_snap_path
                /\ events[k].path \in ListedPaths \ KeptPaths(collection)
    /\ new_snap_path \notin ListedPaths
    /\ pc = "done" /\ events # <<>> =>
          DeletedPaths = ListedPaths \ KeptPaths(collection)

\* a run is over that kept one of two snapshots and deleted the other one
\* after having taken the new one
C13_Witness ==
    /\ pc = "done"
    /\ Len(events) = 2
    /\ events[1].cmd = "snapshot"
    /\ events[2].cmd = "delete"
    /\ KeptPaths(collection) # {}

(***************************************************************************)
(* C20: snapshots are deleted only in a run that found a snapshot due, and *)
(* only after the snapshot command of that run succeeded: when no snapshot *)
(* is due nothing is marked, taken or deleted, and when the snapshot       *)
(* command fails the exception ends the run and no snapshot is deleted.    *)
(***************************************************************************)
C20_DeleteOnlyAfterSnapshotSucceeded ==
    /\ DeletedPaths # {} =>
          /\ SomeEnabledPeriodUncovered
          /\ events[1].cmd = "snapshot"
          /\ events[1].ok
    /\ ~SomeEnabledPeriodUncovered =>
          /\ pc \in {"list", "done"}
          /\ events = <<>>
          /\ KeptPaths(collection) = {}
    /\ (events # <<>> /\ ~events[1].ok) =>
          /\ pc = "failed"
          /\ Len(events) = 1
    /\ (pc = "failed" /\ DeletedPaths = {}) => ~events[1].ok

\* the snapshot command failed in a run that had a snapshot to delete
C20_Witness ==
    /\ pc = "failed"
    /\ events # <<>>
    /\ ~events[1].ok
    /\ ListedPaths \ KeptPaths(collection) # {}
    /\ DeletedPaths = {}

(***************************************************************************)
(* The collection and its sorted flag                                      *)
(***************************************************************************)
\* the keys of the list never go down
Ascending(list) == \A i \in 1..Len(list) - 1 : list[i].key <= list[i + 1].key

\* the records of the list, each with its path, creation time and is_kept
Records(list) == {list[i] : i \in 1..Len(list)}

\* snapshots of the same key stand in the order in which they were added
SameKeyInAddOrder(list) ==
    \A i, j \in 1..Len(list) :
        (i < j /\ list[i].key = list[j].key) => list[i].path < list[j].path

(***************************************************************************)
(* C14: has_snapshop_in_last_period changes no state of the collection:    *)
(* the records, their order, their is_kept flags and the sorted flag are   *)
(* after the call what they were before.                                   *)
(***************************************************************************)
C14_HasSnapshotChangesNothing ==
    [][call'.op = "has_snapshop_in_last_period" =>
          (collection' = collection /\ sorted' = sorted)]_vars

\* has_snapshop_in_last_period keeps the records and their is_kept flags; it
\* sorts them by key when the collection is not sorted, snapshots of the same
\* key staying in the order of their addition, and leaves the flag set
C14_HasSnapshotOnlySorts ==
    [][call'.op = "has_snapshop_in_last_period" =>
          /\ Len(collection') = Len(collection)
          /\ Records(collection') = Records(collection)
          /\ Ascending(collection')
          /\ SameKeyInAddOrder(collection')
          /\ sorted'
          /\ sorted => collection' = collection]_vars

\* has_snapshop_in_last_period has put the snapshot that was added second
\* before the one that was added first
C14_Witness ==
    /\ call.op = "has_snapshop_in_last_period"
    /\ sorted
    /\ Len(collection) = 2
    /\ collection[1].path > collection[2].path

(***************************************************************************)
(* The collection under any sequence of its four operations: snapshots are *)
(* added before, between and after the calls of find_oldest_in_window,     *)
(* mark_period and has_snapshop_in_last_period.                            *)
(***************************************************************************)
InitCollection ==
    /\ debug = DEBUG
    /\ zone = Paris
    /\ now \in Nows
    /\ cfg \in {[p \in Periods |-> 1], Staggered}
    /\ pc = "list"
    /\ collection = <<>>
    /\ sorted = TRUE
    /\ call = NoCall
    /\ planned = {}
    /\ events = <<>>

NextCollection ==
    \/ \E d \in SnapOffsets : Add(now - d)
    \/ \E period \in Periods : FindOldestInWindow(prev_period(period, now), now)
    \/ \E period \in DOMAIN cfg : MarkPeriod(period, cfg[period])
    \/ \E period \in Periods : HasSnapshotInLastPeriod(period)

SpecCollection == InitCollection /\ [][NextCollection]_vars

\* the calls that search the collection
Queries == {"find_oldest_in_window", "mark_period", "has_snapshop_in_last_period"}

(***************************************************************************)
(* C15: after any sequence of add, find_oldest_in_window, mark_period and  *)
(* has_snapshop_in_last_period, a collection whose sorted flag is set is   *)
(* in ascending key order, and every query has searched a collection in    *)
(* ascending key order: an add after a query clears the flag, and the next *)
(* query sorts again.                                                      *)
(***************************************************************************)
C15_SortedFlagMeansAscending ==
    /\ sorted => Ascending(collection)
    /\ call.op \in Queries => (sorted /\ Ascending(collection))
    /\ call.op = "add" => ~sorted

\* a query has sorted a collection to which a snapshot with a smaller key
\* had been added after an earlier query, some snapshot being kept
C15_Witness ==
    /\ call.op \in Queries
    /\ Len(collection) = 2
    /\ collection[1].path > collection[2].path
    /\ collection[1].key < collection[2].key
    /\ collection[2].is_kept
    /\ ~collection[1].is_kept

(***************************************************************************)
(* mark_period, one iteration of its while loop at a time, in either zone: *)
(* the snapshots are listed, mark_period is entered, and its loop runs     *)
(* until the condition of the while fails.  call holds the locals of       *)
(* mark_period: end, nb_kept, and fresh as long as the body has not run;   *)
(* again changes at every iteration, so that an iteration that leaves the  *)
(* locals as they are is a step all the same.                              *)
(***************************************************************************)
\* now, in the morning of the day that follows a DST switch
LoopNows == { DstStart(2018) + Hours(34), DstEnd(2018) + Hours(34) }

\* how long before now the snapshots listed were created
LoopOffsets == { Hours(1), Hours(30), Hours(60) }

InitLoop ==
    /\ debug = DEBUG
    /\ zone \in Zones
    /\ now \in LoopNows
    /\ cfg = NoConfig
    /\ pc = "list"
    /\ collection = <<>>
    /\ sorted = TRUE
    /\ call = NoCall
    /\ planned = {}
    /\ events = <<>>

\* lines 335-336: self.sort(), end = now
MarkPeriodEnter(period, nb_kept) ==
    /\ pc = "list"
    /\ collection' = sort(collection, sorted)
    /\ sorted' = TRUE
    /\ call' = [NoCall EXCEPT !.op = "mark_period", !.period = period,
                              !.nb_kept = nb_kept, !.end = now, !.fresh = TRUE]
    /\ pc' = "loop"
    /\ UNCHANGED <<debug, zone, now, cfg, planned, events>>

\* lines 338-343, the body of the loop, snap being what find_oldest_in_window
\* returned for the window that starts at begin
MarkPeriodFound(begin, snap) ==
    /\ collection' = IF snap # 0 THEN [collection EXCEPT ![snap] = keep(@)]
                                 ELSE collection
    /\ call' = [call EXCEPT !.nb_kept = IF snap # 0 THEN @ - 1 ELSE @,
                            !.begin = begin, !.end = begin, !.fresh = FALSE,
                            !.again = ~@]

\* lines 337-343: the condition of the while holds, and the body runs once
MarkPeriodBody ==
    /\ pc = "loop"
    /\ mark_guard(collection, call.end, call.nb_kept)
    /\ \E begin \in {prev_period(call.period, call.end)} :
          MarkPeriodFound(begin, find_oldest_in_window(collection, begin, call.end))
    /\ UNCHANGED <<debug, zone, now, cfg, pc, sorted, planned, events>>

\* line 337: the condition of the while fails, and mark_period returns
MarkPeriodReturn ==
    /\ pc = "loop"
    /\ ~mark_guard(collection, call.end, call.nb_kept)
    /\ call' = [call EXCEPT !.result = 1]
    /\ pc' = "marked"
    /\ UNCHANGED <<debug, zone, now, cfg, collection, sorted, planned, events>>

NextLoop ==
    \/ /\ pc = "list"
       /\ \E d \in LoopOffsets : Add(now - d)
    \/ \E period \in Periods : \E nb_kept \in 0..MaxCount :
          MarkPeriodEnter(period, nb_kept)
    \/ MarkPeriodBody
    \/ MarkPeriodReturn

\* the body of the loop can run: ENABLED of <<MarkPeriodBody>>_vars, written
\* as a predicate on the state (every iteration changes call.again)
MarkPeriodBodyCanRun ==
    /\ pc = "loop"
    /\ mark_guard(collection, call.end, call.nb_kept)

\* weak fairness of MarkPeriodBody, by its definition
FairMarkPeriodBody ==
    []<>(~MarkPeriodBodyCanRun) \/ []<><<MarkPeriodBody>>_vars

\* the interpreter goes on running mark_period once it is entered: a step of
\* its loop that can be taken is taken
SpecLoop ==
    /\ InitLoop
    /\ [][NextLoop]_vars
    /\ FairMarkPeriodBody
    /\ WF_vars(MarkPeriodReturn)

(***************************************************************************)
(* C16: mark_period terminates for every collection, now, period and       *)
(* count: each iteration of its loop makes end strictly smaller, so that   *)
(* the condition of the while fails in the end; on an empty collection or  *)
(* with a count that is not positive the body does not run at all.         *)
(***************************************************************************)
C16_MarkPeriodTerminates == (pc = "loop") ~> (pc = "marked")

\* the loop of mark_period is about to run its body with a window that
\* starts where it ends: end will not get smaller
C16_EndDoesNotDecrease ==
    /\ pc = "loop"
    /\ mark_guard(collection, call.end, call.nb_kept)
    /\ prev_period(call.period, call.end) >= call.end

\* every iteration makes end strictly smaller
C16_EndDecreases == ~C16_EndDoesNotDecrease

\* C16 holds in a zone whose switches do not take place at local midnight
C16_TerminatesWhenNoSwitchAtMidnight ==
    (pc = "loop" /\ ~SwitchAtLocalMidnight) ~> (pc = "marked")

\* on an empty collection or with a count that is not positive, the body of
\* the loop does not run
C16_NoIterationWithoutSnapshotOrCount ==
    (/\ pc \in {"loop", "marked"}
     /\ \/ collection = <<>>
        \/ (call.nb_kept <= 0 /\ KeptPaths(collection) = {}))
        => call.fresh

\* in such a zone, the loop of mark_period went back across a DST switch,
\* over windows without a snapshot, and returned
C16_ReturnedAcrossSwitch ==
    /\ pc = "marked"
    /\ ~SwitchAtLocalMidnight
    /\ call.period = "daily"
    /\ SwitchBetween(call.end, now)
    /\ KeptPaths(collection) # {}

(***************************************************************************)
(* round_beginning_day in a zone whose DST shift is not one hour           *)
(***************************************************************************)
TrollShiftHours == 2

\* a zone with a shift of two hours: UTC+0, and UTC+2 from the last Sunday
\* of March to the last Sunday of October, both switches at 01:00 UTC
Troll ==
    [std |-> 0, shift |-> TrollShiftHours,
     start |-> <<3, 0>>, end |-> <<10, 0>>, switch |-> 1]

InitShift ==
    /\ debug = DEBUG
    /\ zone \in {Paris, Troll}
    /\ now \in CalInstants
    /\ cfg = NoConfig
    /\ pc = "list"
    /\ collection = <<>>
    /\ sorted = TRUE
    /\ call = NoCall
    /\ planned = {}
    /\ events = <<>>

\* round_beginning_day, applied to now, to what it returned for now, and to
\* instants that follow now
NextShift == \E ts \in CalInputs \cup CalLater : RoundBeginning("daily", ts)

SpecShift == InitShift /\ [][NextShift]_vars

(***************************************************************************)
(* C17: round_beginning_day, which removes the local hours and then makes  *)
(* one correction of one hour, forwards or backwards, when the local hour  *)
(* is still not 0, returns the local midnight of the day that contains t   *)
(* whatever the direction and the size of the DST shift.                   *)
(***************************************************************************)
C17_DayRoundingIsLocalMidnightForAnyShift ==
    call.op = "round_beginning" =>
        /\ call.result <= call.begin
        /\ StartOfPeriod("daily", call.begin, call.result)

\* C17 holds in the zone whose shift is one hour
C17_HoldsForOneHourShift ==
    (call.op = "round_beginning" /\ zone.shift = 1) =>
        /\ call.result <= call.begin
        /\ StartOfPeriod("daily", call.begin, call.result)

\* in the zone whose shift is two hours, a day was rounded across a switch
\* and the local clock of the result does not show 00:00:00
C17_NotMidnightAcrossLargerShift ==
    /\ call.op = "round_beginning"
    /\ zone.shift = TrollShiftHours
    /\ SwitchBetween(call.result, call.begin)
    /\ ~LocalMidnight(Local(call.result))

(***************************************************************************)
(* mark_period and the order in which the snapshots were added             *)
(***************************************************************************)
\* the snapshots of the list in the order of their addition (a path is the
\* rank of the add call), none of them kept
AddedOrder(list) ==
    [i \in 1..Len(list) |->
        Unmarked(list)[CHOOSE j \in 1..Len(list) : list[j].path = i]]

\* the same snapshots, added in the opposite order
AddedInReverse(list) ==
    [i \in 1..Len(list) |-> AddedOrder(list)[Len(list) + 1 - i]]

\* the creation times and the keys of the snapshots kept
KeptInstants(list) == {list[i].ts : i \in {j \in 1..Len(list) : list[j].is_kept}}

KeptKeys(list) == {list[i].key : i \in {j \in 1..Len(list) : list[j].is_kept}}

\* the collection after the last mark_period call, had the snapshots been
\* added in the opposite order
MarkedInReverse ==
    mark_period(sort(AddedInReverse(collection), FALSE), now,
                call.period, call.nb_kept).collection

(***************************************************************************)
(* C18: the creation times of the snapshots that mark_period keeps depend  *)
(* on now, the period, the count and the creation times of the snapshots   *)
(* only, and not on the order in which they were added: two orders of the  *)
(* same snapshots, among them snapshots of the same key, give the same     *)
(* kept creation times.                                                    *)
(***************************************************************************)
C18_KeptInstantsIndependentOfAddOrder ==
    FreshMark => KeptInstants(collection) = KeptInstants(MarkedInReverse)

\* the keys kept do not depend on the order either
C18_KeptKeysIndependentOfAddOrder ==
    FreshMark => KeptKeys(collection) = KeptKeys(MarkedInReverse)

\* all the snapshots have different keys
DistinctKeys == Cardinality(Keys(collection)) = Len(collection)

\* C18 holds for snapshots whose keys are all different
C18_HoldsForDistinctKeys ==
    (FreshMark /\ DistinctKeys) =>
        KeptInstants(collection) = KeptInstants(MarkedInReverse)

\* the kept creation times do not depend on the order of addition when the
\* keys are all different, and a kept snapshot is the one that was added
\* first among those of its key
C18_SameKeyKeptIsFirstAdded ==
    FreshMark =>
        /\ DistinctKeys => KeptInstants(collection) = KeptInstants(MarkedInReverse)
        /\ \A i, j \in Positions(collection) :
              (collection[i].is_kept /\ collection[j].key = collection[i].key)
                  => collection[i].path <= collection[j].path

\* mark_period has kept one of two snapshots with different keys that the
\* sort had to exchange
C18_DistinctKeysExchanged ==
    /\ FreshMark
    /\ DistinctKeys
    /\ Len(collection) = 2
    /\ collection[1].path > collection[2].path
    /\ Cardinality(KeptPaths(collection)) = 1

\* two snapshots of the same key, both created before now: one of them is
\* kept, and the other one would be, had they been added in the opposite order
C18_SameKeyOtherSnapshotKept ==
    /\ FreshMark
    /\ Len(collection) = 2
    /\ collection[1].key = collection[2].key
    /\ collection[1].ts < now
    /\ collection[2].ts < now
    /\ KeptInstants(collection) # KeptInstants(MarkedInReverse)

(***************************************************************************)
(* Successive runs of main() for one volume, the commands being run and    *)
(* succeeding: every run lists the snapshots of the directory, in one      *)
(* order or the other, and when a snapshot is due it marks, takes the      *)
(* snapshot of its own instant and deletes what is not kept.  planned is   *)
(* the directory, as the set of the creation times of its snapshots, which *)
(* name them; collection is the collection of the last run that marked,    *)
(* call.end the instant of that run, and call.loops the number of runs.    *)
(***************************************************************************)
MaxPasses == 4

\* the time between two runs
PassSteps == { Minutes(20), Hours(1), Hours(3) }

\* the first run takes place two hours before the new year
FirstPass == NewYear - Hours(2)

\* the directory before the first run: empty, or with two snapshots of the
\* same hour
PassDirectories == { {}, {FirstPass - Minutes(70), FirstPass - Minutes(65)} }

PassConfigs ==
    { [p \in {"hourly", "daily"} |-> IF p = "hourly" THEN MaxCount ELSE 1],
      [p \in {"hourly", "daily"} |-> IF p = "hourly" THEN 1 ELSE MaxCount],
      [p \in {"daily", "yearly"} |-> 1] }

InitPasses ==
    /\ debug = FALSE
    /\ zone = Paris
    /\ now = FirstPass
    /\ cfg \in PassConfigs
    /\ pc = "done"
    /\ collection = <<>>
    /\ sorted = TRUE
    /\ call = NoCall
    /\ planned \in PassDirectories
    /\ events = <<>>

\* the instants of a set in ascending order
RECURSIVE Ascend(_)
Ascend(instants) ==
    IF instants = {} THEN <<>>
    ELSE Append(Ascend(instants \ {CHOOSE x \in instants : \A y \in instants : y <= x}),
                CHOOSE x \in instants : \A y \in instants : y <= x)

\* lines 394-398: the collection built from os.listdir, which gives the
\* snapshots in ascending order of their names or in the opposite order
Listing(instants, ascending) ==
    [i \in 1..Cardinality(instants) |->
        ExistingSnapshot(
            Ascend(instants)[IF ascending THEN i ELSE Cardinality(instants) + 1 - i],
            Ascend(instants)[IF ascending THEN i ELSE Cardinality(instants) + 1 - i])]

\* lines 406-431 of a run at ts whose collection, marked, is list: the
\* snapshot of ts is taken and the snapshots that are not kept are deleted
PassDue(ts, list) ==
    /\ collection' = list
    /\ planned' = KeptInstants(list) \cup {ts}
    /\ events' = <<[cmd |-> "snapshot", path |-> ts, ok |-> TRUE]>>
                     \o delete_commands(list, 1)
    /\ call' = [NoCall EXCEPT !.op = "pass", !.end = ts, !.result = 1,
                              !.loops = call.loops + 1]

\* a run in which no snapshot is due: nothing is marked, taken or deleted
PassNotDue ==
    /\ events' = <<>>
    /\ call' = [call EXCEPT !.result = 0, !.loops = call.loops + 1]
    /\ UNCHANGED <<collection, planned>>

\* main(), lines 378-431, at the instant ts, list being the sorted collection
PassAt(ts, list) ==
    IF snapshot_due(list, ts, cfg)
    THEN PassDue(ts, mark_periods(list, ts, cfg, 1))
    ELSE PassNotDue

\* one run of main(), step after the run before
RunPass(step, ascending) ==
    /\ call.loops < MaxPasses
    /\ now' = now + step
    /\ PassAt(now + step, sort(Listing(planned, ascending), FALSE))
    /\ UNCHANGED <<debug, zone, cfg, pc, sorted>>

NextPasses == \E step \in PassSteps : \E ascending \in BOOLEAN : RunPass(step, ascending)

SpecPasses == InitPasses /\ [][NextPasses]_vars

\* the k greatest elements of a set of instants
MostRecent(instants, k) ==
    {x \in instants : Cardinality({y \in instants : y > x}) < k}

\* the periods g that hold a snapshot of the directory at a run at ts, each
\* named by its start, and the count most recent of them
NonEmptyWindows(directory, g, ts) ==
    {round_beginning(g, x) : x \in {y \in directory : round_beginning_hour(y) < ts}}

RecentWindows(directory, g, ts, count) ==
    MostRecent(NonEmptyWindows(directory, g, ts), count)

\* snapshot s, kept for g by the run before, is kept for g again, and alone
\* of its window, when reps are the snapshots that this run keeps for g
KeptAgain(g, s, reps) ==
    /\ s \in reps
    /\ \A other \in reps : round_beginning(g, other) = round_beginning(g, s) => other = s

(***************************************************************************)
(* C19: over successive runs, each of which adds a snapshot newer than the *)
(* others and deletes those it does not keep, a snapshot kept by a run for *)
(* a window of a period is kept for that window by the next run that       *)
(* marks, and no other snapshot of the window is, as long as the window is *)
(* among the count most recent windows of the period that hold a snapshot. *)
(***************************************************************************)
C19_RepresentativeStaysKept ==
    [][(call.op = "pass" /\ call'.result = 1) =>
          \A g \in {p \in DOMAIN cfg : cfg[p] > 0} :
          \A s \in KeptAlone(collection, call.end, g, cfg[g]) :
              round_beginning(g, s) \in RecentWindows(planned, g, now', cfg[g])
                  => KeptAgain(g, s, KeptAlone(collection', now', g, cfg[g]))]_vars

\* a run that follows two others at least has marked: it has kept for the
\* day a snapshot that an earlier run had taken, and has deleted a newer
\* snapshot of the same day
C19_Witness ==
    /\ call.op = "pass"
    /\ call.loops >= 3
    /\ call.result = 1
    /\ "daily" \in DOMAIN cfg
    /\ \E i, j \in Positions(collection) :
          /\ collection[i].is_kept
          /\ collection[i].ts > FirstPass
          /\ collection[i].ts \in KeptAlone(collection, call.end, "daily", cfg["daily"])
          /\ ~collection[j].is_kept
          /\ collection[j].ts > collection[i].ts
          /\ round_beginning_day(collection[j].ts) = round_beginning_day(collection[i].ts)

\* the loops of the last run that marked were followed to their end
C19_LoopsFollowedToTheEnd ==
    (call.op = "pass" /\ call.result = 1) =>
        \A g \in DOMAIN cfg :
            mark_period(Unmarked(collection), call.end, g, cfg[g]).finished

=============================================================================
